---- MODULE Spec2Model ----
(***************************************************************************)
(* LofiMaker (src/app/lofi_maker.py): the effects pipeline run by          *)
(* process() on one 16-bit PCM buffer.                                     *)
(*                                                                         *)
(* Numbers.  Samples are 16-bit integers.  Configuration values that the   *)
(* source holds as floats are held here as exact ratios <<num, den>>; the  *)
(* ratios used are dyadic wherever the source computes in float32, so the  *)
(* sums and products below are exactly what float32 holds.  The two        *)
(* float32 operations that do round (the division by the peak and the      *)
(* multiplication by 32767) are modelled bit for bit by F32Quot and        *)
(* RenormToInt16.  target_dBFS is held as the linear full-scale ratio      *)
(* 10^(target_dBFS/20).  Durations are in milliseconds.                    *)
(***************************************************************************)
EXTENDS Integers, Sequences, FiniteSets, TLC

VARIABLES
    audio,      \* self.audio: [samples, frame_rate, channels], samples interleaved
    cfg,        \* the constructor's parameters (self.slow_down, ... )
    pc,         \* the statement of process() about to run
    trace,      \* the transforms invoked so far, in order
    err,        \* the exception that ended the run, or "none"
    input,      \* self.audio as load_audio() returned it
    rv,         \* what the last reverb_audio() call computed before renormalising
    nonfinite,  \* some transform produced a NaN or an infinity
    norm        \* what the normalize_audio() calls did

vars == <<audio, cfg, pc, trace, err, input, rv, nonfinite, norm>>

----------------------------------------------------------------------------
(* Bounds of the model *)

MaxFrames == 3
MaxRepeats == 2
MaxNormalizeCalls == 2

(* 16-bit PCM *)
Int16Min == -32768
Int16Max == 32767
FullScale == 32768

----------------------------------------------------------------------------
(* Integer helpers *)

Abs(x) == IF x < 0 THEN -x ELSE x
Min(a, b) == IF a < b THEN a ELSE b
Max(a, b) == IF a > b THEN a ELSE b
Sign(x) == IF x < 0 THEN -1 ELSE 1

\* int(a / b) of Python for b > 0: truncation toward zero
TruncDiv(a, b) == IF a >= 0 THEN a \div b ELSE -((-a) \div b)

RECURSIVE Pow(_, _)
Pow(b, e) == IF e <= 0 THEN 1 ELSE b * Pow(b, e - 1)

RECURSIVE GCD(_, _)
GCD(a, b) == IF b = 0 THEN a ELSE GCD(b, a % b)

RECURSIVE Log2Floor(_)
Log2Floor(n) == IF n < 2 THEN 0 ELSE 1 + Log2Floor(n \div 2)

RECURSIVE MaxAbs(_)
MaxAbs(s) == IF s = <<>> THEN 0 ELSE Max(Abs(Head(s)), MaxAbs(Tail(s)))

\* Quotients above QuotCap are reported as QuotCap, which keeps every step within
\* 32 bits: the renormalisation stays below it and normalize_audio clamps at 32767
QuotCap == Int16Max * FullScale

\* <<q, r>> with a * b = q * c + r and 0 <= r < c, for a, b >= 0 and c > 0,
\* computed without forming the product a * b
RECURSIVE MulDivMod(_, _, _)
MulDivMod(a, b, c) ==
    IF b = 0 THEN <<0, 0>>
    ELSE LET h  == MulDivMod(a, b \div 2, c)
             r2 == 2 * h[2] + (IF b % 2 = 1 THEN a ELSE 0)
         IN  <<Min(2 * h[1] + (r2 \div c), QuotCap), r2 % c>>

----------------------------------------------------------------------------
(* float32 renormalisation: (x / peak * 32767).astype(np.int16) *)

\* <<M, e>> with float32(X / P) = M * 2^-e and 2^23 <= M <= 2^24, for 0 < X < P:
\* binary long division to 24 significant bits, then round to nearest, ties to even
RECURSIVE F32Bits(_, _, _, _)
F32Bits(r, P, M, e) ==
    IF M >= 8388608
    THEN <<(IF 2 * r > P \/ (2 * r = P /\ M % 2 = 1) THEN M + 1 ELSE M), e>>
    ELSE LET bit == IF 2 * r >= P THEN 1 ELSE 0
         IN  F32Bits(2 * r - bit * P, P, 2 * M + bit, e + 1)

F32Quot(X, P) == F32Bits(X, P, 0, 0)

\* int(float32(float32(X / P) * 32767)) for |X| <= P, P > 0.  The product of the
\* 24-bit quotient by 32767 is rounded to float32 again: it reaches the next
\* integer n exactly when it lies within half a unit in the last place below n.
RenormToInt16(X, P) ==
    LET a == Abs(X)
    IN  IF a = 0 THEN 0
        ELSE IF a = P THEN Sign(X) * Int16Max
        ELSE LET me == F32Quot(a, P)
             IN  IF me[2] > 39 THEN 0
                 ELSE LET D   == Pow(2, me[2] - 15)
                          qr  == MulDivMod(me[1], Int16Max, D)
                          fl  == qr[1] \div FullScale
                          f   == qr[1] % FullScale
                          k   == Log2Floor(fl)
                          gap == (FullScale - f) * D - qr[2]
                          ulp == IF fl >= 1 THEN (D * Pow(2, k)) \div 512 ELSE D \div 1024
                      IN  IF fl = 0 /\ f < 16384 THEN 0
                          ELSE IF Int16Max - f >= 32 THEN Sign(X) * fl
                          ELSE IF gap <= ulp THEN Sign(X) * (fl + 1)
                          ELSE Sign(X) * fl

\* What a NaN becomes when numpy or audioop converts it to a 16-bit integer.  The
\* conversion is undefined behaviour in C, so any 16-bit value may come out; the
\* model keeps two of them, INT_MIN truncated (0) and INT_MIN saturated.
NaNCast == {0, Int16Min}

\* Every sequence of n values drawn from S
SeqsOf(S, n) == [1..n -> S]

----------------------------------------------------------------------------
(* The outcome of one transform call: the buffer it would store in self.audio, *)
(* or the exception it raises before storing anything                          *)

Returned(a, nf) == [error |-> "none", audio |-> a, nonfinite |-> nf]
Raised(e, a) == [error |-> e, audio |-> a, nonfinite |-> FALSE]

Frames(a) == Len(a.samples) \div a.channels

----------------------------------------------------------------------------
(* slow_audio: _spawn(raw_data, frame_rate = int(frame_rate * slow_speed))     *)
(*             .set_frame_rate(frame_rate)                                     *)

\* audioop.ratecv with no filter state: linear interpolation between the previous
\* and the current input frame, d counting output time against input time
RECURSIVE RateCvLoop(_, _, _, _, _, _, _, _, _)
RateCvLoop(s, w, inrate, outrate, d, prev, cur, pos, out) ==
    IF d < 0
    THEN IF pos > Len(s) \div w THEN out
         ELSE RateCvLoop(s, w, inrate, outrate, d + outrate, cur,
                         [c \in 1..w |-> s[(pos - 1) * w + c]], pos + 1, out)
    ELSE RateCvLoop(s, w, inrate, outrate, d - inrate, prev, cur, pos,
                    out \o [c \in 1..w |->
                              (prev[c] * d + cur[c] * (outrate - d)) \div outrate])

RateCv(s, w, inrate, outrate) ==
    LET g == GCD(inrate, outrate)
        z == [c \in 1..w |-> 0]
    IN  RateCvLoop(s, w, inrate \div g, outrate \div g, -(outrate \div g), z, z, 1, <<>>)

slow_audio(a, c) ==
    LET new_rate == TruncDiv(a.frame_rate * c.slow_speed[1], c.slow_speed[2])
    IN  IF new_rate = a.frame_rate \/ a.samples = <<>>
        THEN {Returned(a, FALSE)}
        ELSE IF new_rate <= 0
        THEN {Raised("audioop.error: sampling rate not > 0", a)}
        ELSE {Returned([a EXCEPT !.samples =
                           RateCv(a.samples, a.channels, new_rate, a.frame_rate)], FALSE)}

----------------------------------------------------------------------------
(* reverb_audio *)

delay_samples(a, c) == TruncDiv(a.frame_rate * c.reverb_delay_ms, 1000)

\* ShiftStart with the echo arriving one row early
ShiftStartEarly(k, n) == IF k >= 0 THEN Min(Max(k - 1, 0), n) ELSE n - Min(-k, n)

\* atten[k:] = samples[:-k] for n rows: the first destination row minus one.
\* k > 0 shifts forward; k < 0 copies the head of the signal onto its tail.
ShiftStart(k, n) == IF k >= 0 THEN Min(k, n) ELSE n - Min(-k, n)

\* The slice assignment fails to broadcast when source and destination lengths
\* differ: samples[:-0] is empty while atten[0:] is the whole array
ShiftFails(k, n) == k = 0 /\ n > 0

\* Sum over i = from..R of decay^i * shifted_i[idx], in units of 1 / den^R
RECURSIVE EchoTerms(_, _, _, _, _, _, _)
EchoTerms(s, w, d, decay, R, from, idx) ==
    IF from > R THEN 0
    ELSE LET n     == Len(s) \div w
             frame == (idx - 1) \div w + 1
             start == ShiftStart(d * from, n)
             term  == IF frame > start
                      THEN Pow(decay[1], from) * Pow(decay[2], R - from) * s[idx - start * w]
                      ELSE 0
         IN  term + EchoTerms(s, w, d, decay, R, from + 1, idx)

\* output = copy(samples); output += atten, for each repeat; in units of 1 / den^R
EchoSum(s, w, d, decay, R) ==
    [idx \in 1..Len(s) |-> s[idx] * Pow(decay[2], R) + EchoTerms(s, w, d, decay, R, 1, idx)]

\* (output / np.max(np.abs(output)) * 32767).astype(np.int16): every outcome
Renormalised(sum) ==
    LET peak == MaxAbs(sum)
    IN  IF peak = 0 THEN SeqsOf(NaNCast, Len(sum))
        ELSE {[idx \in 1..Len(sum) |-> RenormToInt16(sum[idx], peak)]}

NoReverb == [called |-> FALSE, src |-> <<>>, sum |-> <<>>, scale |-> 1, delay |-> 0]

\* The set of <<outcome, rv>> pairs of one call
reverb_audio(a, c) ==
    LET w   == IF a.channels = 2 THEN 2 ELSE 1
        n   == Len(a.samples) \div w
        d   == delay_samples(a, c)
        R   == Max(c.reverb_repeats, 0)
        sum == EchoSum(a.samples, w, d, c.reverb_decay, R)
        rec == [called |-> TRUE, src |-> a.samples, sum |-> sum,
                scale |-> Pow(c.reverb_decay[2], R), delay |-> d]
    IN  IF \E i \in 1..R : ShiftFails(d * i, n)
        THEN {<<Raised("ValueError: could not broadcast input array", a),
                [rec EXCEPT !.sum = <<>>]>>}
        ELSE IF n = 0
        THEN {<<Raised("ValueError: zero-size array to reduction operation", a), rec>>}
        ELSE {<<Returned([a EXCEPT !.samples = out], MaxAbs(sum) = 0), rec>> :
                 out \in Renormalised(sum)}

----------------------------------------------------------------------------
(* The pan transforms *)

\* (i / sample_rate) % cycle as a number of quarter cycles; the model's rates and
\* cycles put every frame on a quarter, where sin is 0, 1, 0 (a positive 1.2e-16
\* in float64), -1
PanQuarter(i, rate, cycle_ms) ==
    LET period == cycle_ms * rate
    IN  (4 * ((i * 1000) % period)) \div period

SinQuarter(qt) == CASE qt = 1 -> 1 [] qt = 3 -> -1 [] OTHER -> 0

\* stereo[i, ch] *= gain, gain = (1 +- sin * depth) / 2, in units of
\* 1 / (2 * depth_den); float32 drops the 1.2e-16 of the half cycle
SurroundGains(s, rate, cycle_ms, depth) ==
    [idx \in 1..Len(s) |->
        LET i    == (idx - 1) \div 2
            sn   == SinQuarter(PanQuarter(i, rate, cycle_ms))
            gain == IF idx % 2 = 1 THEN depth[2] + sn * depth[1]
                                   ELSE depth[2] - sn * depth[1]
        IN  s[idx] * gain]

\* surround_audio without its channel check
surround_audio_unchecked(a, c) ==
    LET panned == SurroundGains(a.samples, a.frame_rate,
                                c.surround_cycle_duration, c.surround_depth)
    IN  {Returned([a EXCEPT !.samples = out], MaxAbs(panned) = 0) :
            out \in Renormalised(panned)}

surround_audio(a, c) ==
    IF a.channels # 2
    THEN {Raised("ValueError: Surround effect requires stereo audio.", a)}
    ELSE IF a.samples = <<>>
    THEN {Raised("ValueError: zero-size array to reduction operation", a)}
    ELSE LET panned == SurroundGains(a.samples, a.frame_rate,
                                     c.surround_cycle_duration, c.surround_depth)
         IN  {Returned([a EXCEPT !.samples = out], MaxAbs(panned) = 0) :
                 out \in Renormalised(panned)}

\* int(x * 0.49999999999999994): the right gain of the half cycle is one unit in
\* the last place below 1/2, so an even sample loses one
HalfBelow(x) ==
    IF x # 0 /\ x % 2 = 0 THEN Sign(x) * (Abs(x) \div 2 - 1) ELSE TruncDiv(x, 2)

\* stereo[i, ch] = int(stereo[i, ch] * gain) on the int16 array, depth 1
NdGains(s, rate, cycle_ms) ==
    [idx \in 1..Len(s) |->
        LET i    == (idx - 1) \div 2
            qt   == PanQuarter(i, rate, cycle_ms)
            left == idx % 2 = 1
        IN  CASE qt = 0 -> TruncDiv(s[idx], 2)
              [] qt = 1 -> IF left THEN s[idx] ELSE 0
              [] qt = 2 -> IF left THEN TruncDiv(s[idx], 2) ELSE HalfBelow(s[idx])
              [] OTHER  -> IF left THEN 0 ELSE s[idx]]

apply_nd_audio_effect(a, c) ==
    IF a.channels # 2
    THEN {Raised("ValueError: N-D audio effect requires stereo input.", a)}
    ELSE LET cycle_duration == (c.dimension_cycle * c.dimension_number) \div 8
         IN  {Returned([a EXCEPT !.samples =
                          NdGains(a.samples, a.frame_rate, cycle_duration)], FALSE)}

----------------------------------------------------------------------------
(* normalize_audio: apply_gain(target_dBFS - max_dBFS) *)

\* GainFactor with the gain taken from target_dBFS alone: apply_gain(target_dBFS)
GainFactorTargetOnly(ratio, max) == <<ratio[1], ratio[2]>>

\* 10^((target_dBFS - max_dBFS) / 20) = ratio * 32768 / max, as <<num, den>>
GainFactor(ratio, max) ==
    LET g == GCD(FullScale, ratio[2])
    IN  <<ratio[1] * (FullScale \div g), (ratio[2] \div g) * max>>

\* The factor goes through log and pow in float64 and comes back within a few
\* units in the last place of ratio * 32768 / max: below it, on it or above it.
\* Which of the three is not modelled; it shows only where sample * factor is a
\* whole number.
FactorSides == {-1, 0, 1}

\* audioop.mul on one sample: floor(sample * factor), clamped to 16 bits
MulSample(x, factor, side) ==
    LET qr    == MulDivMod(Abs(x), factor[1], factor[2])
        whole == qr[2] = 0 /\ qr[1] > 0
    IN  IF x >= 0
        THEN Min(IF whole /\ side < 0 THEN qr[1] - 1 ELSE qr[1], Int16Max)
        ELSE Max(-(IF qr[2] > 0 \/ (whole /\ side > 0) THEN qr[1] + 1 ELSE qr[1]),
                 Int16Min)

NoNorm == [calls |-> 0, before |-> <<>>, gain |-> <<1, 1>>]

\* The set of <<outcome, gain>> pairs of one call.  A silent buffer has max_dBFS
\* = -inf, the gain is +inf and 0 * inf is NaN.
normalize_audio(a, c) ==
    LET max == MaxAbs(a.samples)
    IN  IF max = 0
        THEN {<<Returned([a EXCEPT !.samples = out], a.samples # <<>>), <<1, 0>>>> :
                 out \in SeqsOf(NaNCast, Len(a.samples))}
        ELSE LET factor == GainFactor(c.target_dBFS, max)
             IN  {<<Returned([a EXCEPT !.samples =
                                [idx \in 1..Len(a.samples) |->
                                    MulSample(a.samples[idx], factor, side)]], FALSE),
                    factor>> : side \in FactorSides}

----------------------------------------------------------------------------
(* The inputs: decoded tracks and constructor parameters *)

FrameRates == {500, 1000}
MonoValues == {Int16Min, -3, 0, 2}
StereoFrames == {<<0, 0>>, <<2, -3>>, <<Int16Min, Int16Max>>}

Interleave(fs) == [idx \in 1..(2 * Len(fs)) |-> fs[(idx + 1) \div 2][2 - (idx % 2)]]

Buffers ==
    UNION {
        {[samples |-> s, channels |-> 1] : s \in SeqsOf(MonoValues, n)}
        \cup {[samples |-> Interleave(fs), channels |-> 2] : fs \in SeqsOf(StereoFrames, n)}
        : n \in 1..MaxFrames}

Tracks ==
    {[samples |-> b.samples, frame_rate |-> r, channels |-> b.channels] :
        b \in Buffers, r \in FrameRates}

\* target_dBFS as 10^(target_dBFS / 20): -96.3, -1.0, 0 and +6.02 dBFS
TargetRatios == {<<1, 65536>>, <<58409, 65536>>, <<1, 1>>, <<2, 1>>}

\* __init__'s defaults, with the dyadic decay and depth and the millisecond
\* cycles of the model in place of 0.3, 0.7, 14.0 s and 4.0 s
DefaultConfig ==
    [slow_down |-> TRUE, slow_speed |-> <<17, 20>>,
     surround |-> FALSE, surround_cycle_duration |-> 4, surround_depth |-> <<1, 2>>,
     reverb |-> TRUE, reverb_decay |-> <<1, 2>>, reverb_delay_ms |-> 2,
     reverb_repeats |-> 2,
     target_dBFS |-> <<58409, 65536>>,
     dimension |-> FALSE, dimension_number |-> 8, dimension_cycle |-> 4]

AllOff ==
    [DefaultConfig EXCEPT !.slow_down = FALSE, !.reverb = FALSE,
                          !.surround = FALSE, !.dimension = FALSE]

\* decay in (0, 1), delay_ms > 0, repeats >= 1
ValidReverb(c) ==
    /\ 0 < c.reverb_decay[1] /\ c.reverb_decay[1] < c.reverb_decay[2]
    /\ c.reverb_delay_ms > 0
    /\ c.reverb_repeats >= 1

ReverbParams ==
    {<<<<1, 2>>, d, r>> : d \in {1, 2}, r \in 1..MaxRepeats}
    \cup {<<<<3, 2>>, 2, 1>>, <<<<1, 1>>, 2, 1>>, <<<<1, 2>>, 0, 1>>,
          <<<<1, 2>>, -1, 1>>, <<<<1, 2>>, 2, 0>>}

\* Every combination of the four flags, the other parameters at their defaults
FlagConfigs ==
    {[DefaultConfig EXCEPT !.slow_down = f[1], !.reverb = f[2],
                           !.surround = f[3], !.dimension = f[4]] :
        f \in [1..4 -> BOOLEAN]}

Configs ==
    FlagConfigs
    \cup {[AllOff EXCEPT !.reverb = TRUE, !.reverb_decay = p[1],
                         !.reverb_delay_ms = p[2], !.reverb_repeats = p[3]] :
            p \in ReverbParams}
    \cup {[AllOff EXCEPT !.slow_down = TRUE, !.slow_speed = v] :
            v \in {<<1, 2>>, <<1, 1>>, <<0, 1>>}}
    \cup {[AllOff EXCEPT !.target_dBFS = t] : t \in TargetRatios}

----------------------------------------------------------------------------
(* process() *)

Init ==
    /\ audio \in Tracks
    /\ cfg \in Configs
    /\ input = audio
    /\ pc = "slow_audio"
    /\ trace = <<>>
    /\ err = "none"
    /\ rv = NoReverb
    /\ nonfinite = FALSE
    /\ norm = NoNorm

\* NextPc with the reverb and surround statements exchanged
NextPcSwapped(stage) ==
    CASE stage = "slow_audio" -> "surround_audio"
      [] stage = "surround_audio" -> "reverb_audio"
      [] stage = "reverb_audio" -> "apply_nd_audio_effect"
      [] stage = "apply_nd_audio_effect" -> "normalize_audio"
      [] OTHER -> "done"

\* NextPc with process() returning self.audio after the last gated statement
NextPcSkipsNormalize(stage) ==
    CASE stage = "slow_audio" -> "reverb_audio"
      [] stage = "reverb_audio" -> "surround_audio"
      [] stage = "surround_audio" -> "apply_nd_audio_effect"
      [] OTHER -> "done"

\* The statement that follows each statement of process()
NextPc(stage) ==
    CASE stage = "slow_audio" -> "reverb_audio"
      [] stage = "reverb_audio" -> "surround_audio"
      [] stage = "surround_audio" -> "apply_nd_audio_effect"
      [] stage = "apply_nd_audio_effect" -> "normalize_audio"
      [] OTHER -> "done"

\* The transform was called: it stored its result, or raised out of process()
Invoke(stage, o) ==
    /\ trace' = Append(trace, stage)
    /\ nonfinite' = (nonfinite \/ o.nonfinite)
    /\ IF o.error = "none"
       THEN audio' = o.audio /\ pc' = NextPc(stage) /\ err' = err
       ELSE audio' = audio /\ pc' = "raised" /\ err' = o.error

\* "... if flag else self.audio": the flag is off
Skip(stage) ==
    /\ audio' = audio
    /\ pc' = NextPc(stage)
    /\ UNCHANGED <<trace, err, nonfinite>>

Normalized(g) ==
    [calls |-> norm.calls + 1, before |-> audio.samples, gain |-> g]

SlowStage ==
    /\ pc = "slow_audio"
    /\ IF cfg.slow_down
       THEN \E o \in slow_audio(audio, cfg) : Invoke("slow_audio", o)
       ELSE Skip("slow_audio")
    /\ UNCHANGED <<cfg, input, rv, norm>>

\* ReverbStage with the flag ignored
ReverbStageUnconditional ==
    /\ pc = "reverb_audio"
    /\ \E o \in reverb_audio(audio, cfg) :
           Invoke("reverb_audio", o[1]) /\ rv' = o[2]
    /\ UNCHANGED <<cfg, input, norm>>

ReverbStage ==
    /\ pc = "reverb_audio"
    /\ IF cfg.reverb
       THEN \E o \in reverb_audio(audio, cfg) :
                Invoke("reverb_audio", o[1]) /\ rv' = o[2]
       ELSE Skip("reverb_audio") /\ rv' = rv
    /\ UNCHANGED <<cfg, input, norm>>

SurroundStage ==
    /\ pc = "surround_audio"
    /\ IF cfg.surround
       THEN \E o \in surround_audio(audio, cfg) : Invoke("surround_audio", o)
       ELSE Skip("surround_audio")
    /\ UNCHANGED <<cfg, input, rv, norm>>

DimensionStage ==
    /\ pc = "apply_nd_audio_effect"
    /\ IF cfg.dimension
       THEN \E o \in apply_nd_audio_effect(audio, cfg) :
                Invoke("apply_nd_audio_effect", o)
       ELSE Skip("apply_nd_audio_effect")
    /\ UNCHANGED <<cfg, input, rv, norm>>

NormalizeStage ==
    /\ pc = "normalize_audio"
    /\ \E o \in normalize_audio(audio, cfg) :
           Invoke("normalize_audio", o[1]) /\ norm' = Normalized(o[2])
    /\ UNCHANGED <<cfg, input, rv>>

Next ==
    \/ SlowStage
    \/ ReverbStage
    \/ SurroundStage
    \/ DimensionStage
    \/ NormalizeStage

Spec == Init /\ [][Next]_vars

----------------------------------------------------------------------------
(* normalize_audio() called on its own, again and again, on the loaded track *)

NormalizeCall ==
    /\ norm.calls < MaxNormalizeCalls
    /\ \E o \in normalize_audio(audio, cfg) :
           /\ audio' = o[1].audio
           /\ nonfinite' = (nonfinite \/ o[1].nonfinite)
           /\ norm' = Normalized(o[2])
    /\ trace' = Append(trace, "normalize_audio")
    /\ UNCHANGED <<cfg, pc, err, input, rv>>

\* Only target_dBFS matters to normalize_audio
InitNormalize ==
    /\ audio \in Tracks
    /\ cfg \in {[AllOff EXCEPT !.target_dBFS = t] : t \in TargetRatios}
    /\ input = audio
    /\ pc = "normalize_audio"
    /\ trace = <<>>
    /\ err = "none"
    /\ rv = NoReverb
    /\ nonfinite = FALSE
    /\ norm = NoNorm

SpecNormalize == InitNormalize /\ [][NormalizeCall]_vars

----------------------------------------------------------------------------
(* Properties *)

Rank(stage) ==
    CASE stage = "slow_audio" -> 1
      [] stage = "reverb_audio" -> 2
      [] stage = "surround_audio" -> 3
      [] stage = "apply_nd_audio_effect" -> 4
      [] OTHER -> 5

Terminated == pc \in {"done", "raised"}
Last(s) == s[Len(s)]
Silent(s) == \A idx \in 1..Len(s) : s[idx] = 0
AllFlagsOff ==
    ~cfg.slow_down /\ ~cfg.reverb /\ ~cfg.surround /\ ~cfg.dimension

\* C1: in every run of process() the transforms that are invoked are invoked in
\* the order Speed, Reverb, Surround, Dimension, Normalize: none after one that
\* follows it in that order, and none twice.
C1_StageOrder ==
    \A i, j \in 1..Len(trace) : i < j => Rank(trace[i]) < Rank(trace[j])

\* A run that invoked all five transforms
C1_AllFiveRan ==
    trace = <<"slow_audio", "reverb_audio", "surround_audio",
              "apply_nd_audio_effect", "normalize_audio">>

\* C2, as claimed: for every combination of the flags and every input buffer,
\* mono or stereo, a run of process() that has ended has invoked normalize_audio,
\* and invoked it last.
C2_NormalizeAlways ==
    (cfg \in FlagConfigs /\ Terminated) =>
        (trace # <<>> /\ Last(trace) = "normalize_audio")

\* Whether the statement of process() at pc can run: its flag is off, or the
\* transform it calls returns or raises
CanStep ==
    CASE pc = "slow_audio" -> cfg.slow_down => slow_audio(audio, cfg) # {}
      [] pc = "reverb_audio" -> cfg.reverb => reverb_audio(audio, cfg) # {}
      [] pc = "surround_audio" -> cfg.surround => surround_audio(audio, cfg) # {}
      [] pc = "apply_nd_audio_effect" ->
             cfg.dimension => apply_nd_audio_effect(audio, cfg) # {}
      [] pc = "normalize_audio" -> normalize_audio(audio, cfg) # {}
      [] OTHER -> FALSE

\* C2, amended: a run of process() that returns has invoked normalize_audio, and
\* invoked it last; a run that ends any other way ended because a transform
\* raised, before normalize_audio was reached; and a run stops nowhere else.
C2_NormalizeLastIfReturned ==
    /\ pc = "done" =>
           (trace # <<>> /\ Last(trace) = "normalize_audio" /\ err = "none")
    /\ pc = "raised" =>
           (err # "none" /\ trace # <<>> /\ Last(trace) # "normalize_audio")
    /\ ~Terminated => CanStep

\* A stereo run with Surround enabled that returned through normalize_audio
C2_StereoSurroundReturned ==
    /\ pc = "done" /\ cfg.surround /\ audio.channels = 2
    /\ Last(trace) = "normalize_audio" /\ "surround_audio" \in {trace[i] : i \in 1..Len(trace)}

\* C3: a gated statement whose flag is off leaves the buffer (samples, sample
\* rate, channel count) as it found it and passes it to the next statement; with
\* all four flags off the buffer that reaches Normalize is the input buffer.
C3_DisabledStageNoOp ==
    [][ /\ (pc = "slow_audio" /\ ~cfg.slow_down) =>
               (audio' = audio /\ pc' = "reverb_audio")
        /\ (pc = "reverb_audio" /\ ~cfg.reverb) =>
               (audio' = audio /\ pc' = "surround_audio")
        /\ (pc = "surround_audio" /\ ~cfg.surround) =>
               (audio' = audio /\ pc' = "apply_nd_audio_effect")
        /\ (pc = "apply_nd_audio_effect" /\ ~cfg.dimension) =>
               (audio' = audio /\ pc' = "normalize_audio")
        /\ (AllFlagsOff /\ pc' = "normalize_audio") => audio' = input ]_vars

\* All four flags off and the run at Normalize with the input buffer untouched
C3_AllOffReachesNormalize ==
    AllFlagsOff /\ pc = "normalize_audio" /\ audio = input /\ trace = <<>>

\* C4: either pan transform invoked on a buffer that is not stereo raises its
\* unsupported-layout error and leaves the buffer as it was.
C4_PanRejectsNonStereo ==
    [][ /\ (pc = "surround_audio" /\ cfg.surround /\ audio.channels # 2) =>
               /\ err' = "ValueError: Surround effect requires stereo audio."
               /\ pc' = "raised"
               /\ audio' = audio
        /\ (pc = "apply_nd_audio_effect" /\ cfg.dimension /\ audio.channels # 2) =>
               /\ err' = "ValueError: N-D audio effect requires stereo input."
               /\ pc' = "raised"
               /\ audio' = audio ]_vars

\* A pan transform was invoked on a mono buffer and raised
C4_MonoPanRaised ==
    /\ audio.channels = 1 /\ pc = "raised"
    /\ Last(trace) \in {"surround_audio", "apply_nd_audio_effect"}
    /\ err \in {"ValueError: Surround effect requires stereo audio.",
                "ValueError: N-D audio effect requires stereo input."}

\* reverb_audio was the last transform invoked; it returned or raised
ReverbJustEnded ==
    rv.called /\ trace # <<>> /\ Last(trace) = "reverb_audio"

ReverbOnly ==
    cfg.reverb /\ ~cfg.slow_down /\ ~cfg.surround /\ ~cfg.dimension

\* C5, as claimed: a transform invoked with a parameter outside its domain (Speed
\* with slow_speed <= 0; Reverb with repeats <= 0, delay <= 0 or decay outside
\* (0, 1)) fails before any sample is changed: it raises and the buffer is the
\* one the call was given.
C5_InvalidParameterRejected ==
    /\ (ReverbJustEnded /\ ~ValidReverb(cfg)) =>
           (pc = "raised" /\ audio.samples = rv.src)
    /\ (trace # <<>> /\ Last(trace) = "slow_audio" /\ cfg.slow_speed[1] <= 0) =>
           (pc = "raised" /\ audio = input)

\* C6, as claimed: an all-zero buffer, mono or stereo, passed through Reverb
\* (valid parameters, a delay of at least one frame) and then Normalize comes
\* out all-zero and of the same length, no NaN or infinity having been
\* produced and no error raised.
C6_SilenceStaysSilent ==
    (/\ Silent(input.samples) /\ ReverbOnly /\ ValidReverb(cfg)
     /\ delay_samples(input, cfg) >= 1 /\ Terminated) =>
        /\ pc = "done" /\ err = "none"
        /\ ~nonfinite
        /\ Len(audio.samples) = Len(input.samples)
        /\ Silent(audio.samples)

\* C7, as claimed: for every input buffer and valid parameters, every sample
\* Reverb returns lies within +-32767, the value converted to 16 bits having
\* been a finite number in range.
C7_ReverbWithinInt16 ==
    (ReverbJustEnded /\ ValidReverb(cfg) /\ pc # "raised") =>
        /\ ~nonfinite
        /\ \A idx \in 1..Len(audio.samples) : Abs(audio.samples[idx]) <= Int16Max

\* Reverb has just returned on a stereo buffer, its parameters valid
ReverbReturnedStereo ==
    ReverbJustEnded /\ pc # "raised" /\ audio.channels = 2 /\ ValidReverb(cfg)

\* The samples of the first delay_samples frames
HeadSamples == 1..Min(2 * rv.delay, Len(rv.src))

\* C8, as claimed: after Reverb on a stereo buffer with valid parameters the
\* first delay_samples frames of the output equal the frames of the input.
C8_FirstFramesEqualInput ==
    ReverbReturnedStereo =>
        \A idx \in HeadSamples : audio.samples[idx] = rv.src[idx]

\* C8, amended: the first delay_samples frames carry no echo.  Before the
\* renormalisation they are the input frames exactly; in the output each of
\* their samples is the input sample divided by the peak of the echo sum and
\* scaled by 32767, truncated to 16 bits.  When that peak is zero the division
\* is 0 / 0 and the output is the conversion of a non-finite value.
C8_FirstFramesCarryNoEcho ==
    ReverbReturnedStereo =>
        /\ \A idx \in HeadSamples :
               /\ rv.sum[idx] = rv.src[idx] * rv.scale
               /\ MaxAbs(rv.sum) > 0 =>
                      audio.samples[idx] =
                          RenormToInt16(rv.src[idx] * rv.scale, MaxAbs(rv.sum))
        /\ MaxAbs(rv.sum) = 0 => nonfinite

\* A stereo Reverb whose echo arrived after the first delay_samples frames and
\* whose renormalisation changed the first sample
C8_EchoArrivedLater ==
    /\ ReverbReturnedStereo
    /\ rv.delay >= 1
    /\ \E idx \in (2 * rv.delay + 1)..Len(rv.src) :
           rv.sum[idx] # rv.src[idx] * rv.scale
    /\ audio.samples[1] # rv.src[1]

\* A step that calls normalize_audio on a buffer that a call of normalize_audio
\* made from a non-silent buffer
RepeatedNormalize ==
    /\ norm.calls >= 1
    /\ norm'.calls = norm.calls + 1
    /\ MaxAbs(norm.before) > 0

\* ... and that is itself not silent
SecondNormalize ==
    RepeatedNormalize /\ MaxAbs(audio.samples) > 0

\* The call's gain factor is within 1/peak of 1, and no sample moves by more
\* than two quantisation steps
UnchangedWithinTolerance ==
    /\ Abs(norm'.gain[1] - norm'.gain[2]) * MaxAbs(audio.samples) <= norm'.gain[2]
    /\ Len(audio'.samples) = Len(audio.samples)
    /\ \A idx \in 1..Len(audio.samples) :
           Abs(audio'.samples[idx] - audio.samples[idx]) <= 2

\* C9, as claimed: for every non-silent buffer and every target_dBFS, a second
\* normalize_audio with the same target has a gain of about 0 dB and leaves the
\* buffer unchanged within tolerance.
C9_NormalizeIdempotent ==
    [][SecondNormalize => UnchangedWithinTolerance]_vars

\* C9, amended: for every target_dBFS at or below 0 dBFS, a second
\* normalize_audio on a once-normalised buffer that is not silent has a gain
\* factor within 1/peak of 1 and moves no sample by more than two quantisation
\* steps; on a once-normalised buffer that the first call left silent it
\* computes a non-finite gain.
C9_NormalizeIdempotentUpToFullScale ==
    [][(RepeatedNormalize /\ cfg.target_dBFS[1] <= cfg.target_dBFS[2]) =>
           IF MaxAbs(audio.samples) > 0
           THEN UnchangedWithinTolerance
           ELSE nonfinite']_vars

\* A second normalize_audio, target at or below 0 dBFS, that moved a sample
C9_SecondCallMovedASample ==
    /\ norm.calls = 2
    /\ cfg.target_dBFS[1] <= cfg.target_dBFS[2]
    /\ MaxAbs(input.samples) > 0 /\ MaxAbs(norm.before) > 0
    /\ audio.samples # norm.before
    /\ \A idx \in 1..Len(audio.samples) :
           Abs(audio.samples[idx] - norm.before[idx]) <= 2

\* Sum over i = from..R, with i * d frames not beyond the frame of idx, of
\* decay^i * original[frame - i * d], in units of 1 / den^R
RECURSIVE ClaimedEchoTerms(_, _, _, _, _, _, _)
ClaimedEchoTerms(src, w, d, decay, R, from, idx) ==
    IF from > R THEN 0
    ELSE (IF from * d <= (idx - 1) \div w
          THEN Pow(decay[1], from) * Pow(decay[2], R - from) * src[idx - from * d * w]
          ELSE 0)
         + ClaimedEchoTerms(src, w, d, decay, R, from + 1, idx)

\* C10, as claimed: for every non-silent buffer, of any length, and valid decay,
\* delay and repeats, Reverb completes without error, keeps the number of
\* frames, and before renormalisation output frame n is original[n] plus the
\* sum over i = 1..repeats with i * delay_samples <= n of
\* decay^i * original[n - i * delay_samples].
C10_EchoFromOriginal ==
    (ReverbJustEnded /\ ValidReverb(cfg) /\ MaxAbs(rv.src) > 0) =>
        /\ pc # "raised"
        /\ Len(audio.samples) = Len(rv.src)
        /\ Len(rv.sum) = Len(rv.src)
        /\ \A idx \in 1..Len(rv.sum) :
               rv.sum[idx] =
                   rv.src[idx] * rv.scale
                   + ClaimedEchoTerms(rv.src, (IF audio.channels = 2 THEN 2 ELSE 1),
                                      rv.delay, cfg.reverb_decay, cfg.reverb_repeats,
                                      1, idx)

====
